---------------------------- MODULE Spec2Model ----------------------------
(***************************************************************************)
(* A model of the statebrain Block (src/block.go, src/util.go): the fuzzy  *)
(* Markov transition step Block.Batch, its gradient propagation            *)
(* blockOutput.Gradient, parameter enumeration, construction and JSON      *)
(* persistence.                                                            *)
(*                                                                         *)
(* Conventions.                                                            *)
(*  - Go slices are 0-based, TLA+ sequences 1-based: index k of the model  *)
(*    is Go index k-1 (state 1 is Go's state 0, symbol 1 is Go's symbol 0).*)
(*  - Parameter vectors and input score vectors (linalg.Vector holding     *)
(*    logits) are sequences of integers on the grid of multiples of 25.    *)
(*  - A vector of log-probabilities is kept as the sequence of the exact   *)
(*    rationals <<n, d>> (lowest terms) that its entries exponentiate to:  *)
(*    the log value 0 is <<1, 1>>, adding log values multiplies the        *)
(*    rationals, log-domain addition adds them.  Exp is the exponential to *)
(*    the base 2^(1/25), so that the logits 0, 25, 50, 100 exponentiate to *)
(*    1, 2, 4, 16; every identity the step relies on (exp(x+y) =           *)
(*    exp(x)exp(y), exp(0) = 1, exp injective) is independent of the base. *)
(***************************************************************************)
EXTENDS Integers, Sequences, FiniteSets, TLC

\* ------------------------------------------------------------------ bounds
MaxStates == 2      \* NewBlock is called with stateCount in -1..MaxStates
MaxAlphabet == 2    \* NewBlock is called with alphabetSize in -1..MaxAlphabet
MaxSteps == 2       \* Batch calls on the block
MaxGrads == 2       \* Gradient calls on one step result

\* The logit initialState gives state 0 (src/block.go:186).
InitialLogit == 100

\* Logit values the caller's scores take.
Logits == {0, 25}

\* The parameter settings the optimizer is seen to write.
Settings == {1, 2}

\* ------------------------------------------------------- exact arithmetic
RECURSIVE GCD(_, _)
GCD(a, b) == IF b = 0 THEN a ELSE GCD(b, a % b)

Rat(n, d) == LET c == GCD(n, d) IN <<n \div c, d \div c>>
One == <<1, 1>>
RMul(p, q) == Rat(p[1] * q[1], p[2] * q[2])
RAdd(p, q) == Rat(p[1] * q[2] + q[1] * p[2], p[2] * q[2])

\* math.Exp on the logit grid: base 2^(1/25).
Exp(x) == IF x >= 0 THEN <<2 ^ (x \div 25), 1>> ELSE <<1, 2 ^ ((0 - x) \div 25)>>

RECURSIVE SumVec(_, _)
SumVec(v, n) == IF n = 0 THEN <<0, 1>> ELSE RAdd(SumVec(v, n - 1), v[n])

\* v is a log-distribution: its entries exponentiate to sum exactly 1.
IsDist(v) == Len(v) >= 1 /\ SumVec(v, Len(v)) = One

\* ------------------------------------------------------- autofunc, neuralnet
\* neuralnet.LogSoftmaxLayer.Apply on a logit vector: entry i is
\* x[i] - log(sum_j exp(x[j])), kept as exp(x[i]) / sum_j exp(x[j]).
LogSoftmax(x) ==
    LET e == [i \in 1..Len(x) |-> Exp(x[i])]
        total == SumVec(e, Len(e))
    IN [i \in 1..Len(x) |-> RMul(e[i], <<total[2], total[1]>>)]

\* autofunc.Slice(state, stateIdx, stateIdx+1): the one-entry vector.
Slice(v, stateIdx) == <<v[stateIdx]>>

\* autofunc.AddFirst(v, s): adds the scalar s[0] to every log entry of v.
AddFirst(v, s) == [i \in 1..Len(v) |-> RMul(v[i], s[1])]

\* autofunc.AddLogDomain(a, b): entrywise log(exp(a) + exp(b)).
AddLogDomain(a, b) == [i \in 1..Len(a) |-> RAdd(a[i], b[i])]

\* ------------------------------------------------------------------ util.go
allZeroes_Any(v) == \E i \in 1..Len(v) : v[i] = One

\* allZeroes: no entry differs from the log value 0.
allZeroes(v) == ~ \E i \in 1..Len(v) : v[i] # One

RECURSIVE maxIndexFrom(_, _, _, _)
\* The loop of maxIndex from position i on, with maxVal and res as they stand;
\* maxVal is <<>> while it is still -Inf, and <<x>> once it is x.
maxIndexFrom(v, i, maxVal, res) ==
    IF i > Len(v) THEN res
    ELSE IF maxVal = <<>> \/ v[i] >= maxVal[1]
         THEN maxIndexFrom(v, i + 1, <<v[i]>>, i)
         ELSE maxIndexFrom(v, i + 1, maxVal, res)

RECURSIVE maxIndexFirstFrom(_, _, _, _)
maxIndexFirstFrom(v, i, maxVal, res) ==
    IF i > Len(v) THEN res
    ELSE IF maxVal = <<>> \/ v[i] > maxVal[1]
         THEN maxIndexFirstFrom(v, i + 1, <<v[i]>>, i)
         ELSE maxIndexFirstFrom(v, i + 1, maxVal, res)

maxIndex_First(v) == maxIndexFirstFrom(v, 1, <<>>, 1)

\* maxIndex: maxVal starts at -Inf (here <<>>), res at Go's 0 (here 1).
maxIndex(v) == maxIndexFrom(v, 1, <<>>, 1)

\* ------------------------------------------------------------------ Block
Zeros(n) == [i \in 1..n |-> 0]

NilBlock == [nil |-> TRUE, Entries |-> <<>>]

\* The Block NewBlock builds when make does not panic: stateCount entries,
\* each with a zero Output of length alphabetSize and alphabetSize zero
\* Transitions of length stateCount.
MakeBlock(alphabetSize, stateCount) ==
    [nil |-> FALSE,
     Entries |-> [i \in 1..stateCount |->
        [Output |-> Zeros(alphabetSize),
         Transitions |-> [j \in 1..alphabetSize |-> Zeros(stateCount)]]]]

\* make([]StateEntry, stateCount) panics on a negative length; so does
\* make(linalg.Vector, alphabetSize), which runs only inside the loop over
\* the entries.
NewBlockPanics(alphabetSize, stateCount) ==
    stateCount < 0 \/ (stateCount > 0 /\ alphabetSize < 0)

StateSize(b) == Len(b.Entries)
AlphabetSize(b) == IF StateSize(b) = 0 THEN 0 ELSE Len(b.Entries[1].Output)

\* The identities of a state's variables, as Parameters appends them: an
\* *autofunc.Variable is named by its place in the Block.
EntryParameters_TransitionsFirst(b, s) ==
    [c \in 1..Len(b.Entries[s].Transitions) |-> <<"Transitions", s, c>>]
        \o << <<"Output", s, 0>> >>

EntryParameters(b, s) ==
    << <<"Output", s, 0>> >> \o
    [c \in 1..Len(b.Entries[s].Transitions) |-> <<"Transitions", s, c>>]

RECURSIVE ParametersUpTo(_, _)
ParametersUpTo(b, n) ==
    IF n = 0 THEN <<>> ELSE ParametersUpTo(b, n - 1) \o EntryParameters(b, n)

\* Block.Parameters: for each entry, its Output, then its Transitions.
Parameters(b) == ParametersUpTo(b, Len(b.Entries))

\* The vector a parameter identity points to.
Deref(b, p) ==
    IF p[1] = "Output" THEN b.Entries[p[2]].Output
    ELSE b.Entries[p[2]].Transitions[p[3]]

\* The block with the vector of parameter p overwritten (a write through the
\* pointer Parameters hands out).
WithVector(b, p, vec) ==
    [b EXCEPT !.Entries[p[2]] =
        IF p[1] = "Output" THEN [@ EXCEPT !.Output = vec]
        ELSE [@ EXCEPT !.Transitions[p[3]] = vec]]

\* initialState: log-softmax of the vector that is InitialLogit at index 0
\* and 0 elsewhere.
initialState(b) ==
    LogSoftmax([i \in 1..StateSize(b) |-> IF i = 1 THEN InitialLogit ELSE 0])


\* ------------------------------------------------------------- Block.Batch
NilAcc == [nil |-> TRUE, output |-> <<>>, newStates |-> <<>>]

\* Pads or cuts w to the length of v, so that a faulty variant of the fold
\* still yields vectors of the state's length.
Fit(w, v) == [i \in 1..Len(v) |-> IF i <= Len(w) THEN w[i] ELSE <<0, 1>>]

Accumulate_ReuseOutput(acc, scaledOut, scaledStates) ==
    IF acc.nil
    THEN [nil |-> FALSE, output |-> scaledOut, newStates |-> scaledStates]
    ELSE [nil |-> FALSE,
          output |-> AddLogDomain(acc.output, scaledOut),
          newStates |-> AddLogDomain(acc.newStates, Fit(scaledOut, acc.newStates))]

\* Lines 90-96: the first state's terms start the accumulators, each later
\* state's terms are folded in with AddLogDomain.
Accumulate(acc, scaledOut, scaledStates) ==
    IF acc.nil
    THEN [nil |-> FALSE, output |-> scaledOut, newStates |-> scaledStates]
    ELSE [nil |-> FALSE,
          output |-> AddLogDomain(acc.output, scaledOut),
          newStates |-> AddLogDomain(acc.newStates, scaledStates)]

Scale_Unweighted(v, state, stateIdx) == v

\* Lines 86-88: a state's distribution plus the log-probability of the state.
Scale(v, state, stateIdx) == AddFirst(v, Slice(state, stateIdx))

\* Line 84: the transition tensor read for the selected symbol.
TransitionRow(entry, input) == entry.Transitions[input]

RECURSIVE FoldEntries(_, _, _, _)
\* Lines 82-97 for the entries 1..n, in index order.
FoldEntries(b, input, state, n) ==
    IF n = 0 THEN NilAcc
    ELSE LET entry == b.Entries[n]
             outputs == LogSoftmax(entry.Output)
             transitions == LogSoftmax(TransitionRow(entry, input))
         IN Accumulate(FoldEntries(b, input, state, n - 1),
                       Scale(outputs, state, n),
                       Scale(transitions, state, n))

\* Lines 73, 186 and 84: the loop body panics on a block without states
\* (initialState writes index 0 of an empty vector) and on a symbol that has
\* no transition tensor.
ItemPanics(b, inputVec) ==
    StateSize(b) = 0 \/ maxIndex(inputVec) > Len(b.Entries[1].Transitions)

\* Lines 76-78: the state the loop body goes on with.
StateUsed(b, state) == IF allZeroes(state) THEN initialState(b) ELSE state

\* Lines 72-103 for one item of the batch.
BatchItem(b, inputVec, state) ==
    LET input == maxIndex(inputVec)
        used == StateUsed(b, state)
        acc == FoldEntries(b, input, used, StateSize(b))
    IN [input |-> input,
        usedInitial |-> allZeroes(state),
        state |-> used,
        output |-> acc.output,
        newStates |-> acc.newStates]

\* ------------------------------------------------------ blockOutput.Gradient
\* u.Outputs and u.States, each nil (FALSE) or a non-zero upstream gradient,
\* and not both nil.
Upstreams == [Outputs : BOOLEAN, States : BOOLEAN] \ {[Outputs |-> FALSE, States |-> FALSE]}

NilOut ==
    [nil |-> TRUE, id |-> 0, Inputs |-> <<>>, States |-> <<>>, fromPrev |-> <<>>,
     input |-> <<>>, usedInitial |-> <<>>, state |-> <<>>,
     OutputVecs |-> <<>>, StateVecs |-> <<>>, propagated |-> 0]

Bit(c) == IF c THEN 1 ELSE 0

\* The variable item i's state slices lead back to: the caller's state
\* variable, or the variable initialState made for this item.
StateLeaf(o, i) ==
    IF o.usedInitial[i] THEN <<"initialState", i, 0>> ELSE <<"State", i, 0>>

TransitionLeaf_AllRows(o, i, k) == k[1] = "Transitions"

\* The transition tensors item i's next-state graph reads.
TransitionLeaf(o, i, k) == k[1] = "Transitions" /\ k[3] = o.input[i]

\* How often propagating u through item i's graphs reaches the variable k:
\* OutputRes[i] reaches every entry's Output once and the state once per
\* entry; StateRes[i] reaches every entry's selected transition tensor once
\* and the state once per entry.
ItemVisits(o, u, i, k) ==
    LET n == Len(o.StateVecs[i])
    IN IF k[1] = "Output" THEN Bit(u.Outputs /\ k[2] <= n)
       ELSE IF k[1] = "Transitions"
            THEN Bit(u.States /\ k[2] <= n /\ TransitionLeaf(o, i, k))
       ELSE IF k = StateLeaf(o, i) THEN n * (Bit(u.Outputs) + Bit(u.States))
       ELSE 0

RECURSIVE Visits(_, _, _, _)
Visits(o, u, n, k) ==
    IF n = 0 THEN 0 ELSE Visits(o, u, n - 1, k) + ItemVisits(o, u, n, k)

GradientInto_OnceOnly(o, u, gm) ==
    IF o.propagated >= 1 THEN gm
    ELSE [k \in DOMAIN gm |-> gm[k] + Visits(o, u, Len(o.StateVecs), k)]

\* Gradient: every PropagateGradient call adds into the entries the map has
\* (autofunc.Variable adds only when the map holds the variable).
GradientInto(o, u, gm) ==
    [k \in DOMAIN gm |-> gm[k] + Visits(o, u, Len(o.StateVecs), k)]


\* ------------------------------------------------- Serialize, encoding/json
\* The bytes are kept as JSON tokens: the punctuation, the quoted field names
\* and, for a number, its sign and decimal digits one by one.
Digits == <<"0", "1", "2", "3", "4", "5", "6", "7", "8", "9">>

RECURSIVE FormatNat(_)
FormatNat(n) ==
    IF n < 10 THEN <<Digits[n + 1]>> ELSE FormatNat(n \div 10) \o <<Digits[(n % 10) + 1]>>

\* A float64 that holds an integer is written in decimal, without exponent.
FormatNumber(n) == IF n < 0 THEN <<"-">> \o FormatNat(0 - n) ELSE FormatNat(n)

RECURSIVE MarshalNumbers(_, _)
MarshalNumbers(v, n) ==
    IF n = 0 THEN <<>>
    ELSE IF n = 1 THEN FormatNumber(v[1])
    ELSE MarshalNumbers(v, n - 1) \o <<",">> \o FormatNumber(v[n])

\* linalg.Vector, a []float64.
MarshalVector(v) == <<"[">> \o MarshalNumbers(v, Len(v)) \o <<"]">>

\* autofunc.Variable, a struct with the one field Vector.
MarshalVariable(v) == <<"{", "Vector", ":">> \o MarshalVector(v) \o <<"}">>

RECURSIVE MarshalVariables(_, _)
MarshalVariables(vs, n) ==
    IF n = 0 THEN <<>>
    ELSE IF n = 1 THEN MarshalVariable(vs[1])
    ELSE MarshalVariables(vs, n - 1) \o <<",">> \o MarshalVariable(vs[n])

MarshalEntry_OutputOnly(e) ==
    <<"{", "Output", ":">> \o MarshalVariable(e.Output) \o
    <<",", "Transitions", ":", "[">> \o <<"]", "}">>

\* StateEntry: the exported fields Output and Transitions, in that order.
MarshalEntry(e) ==
    <<"{", "Output", ":">> \o MarshalVariable(e.Output) \o
    <<",", "Transitions", ":", "[">> \o
    MarshalVariables(e.Transitions, Len(e.Transitions)) \o <<"]", "}">>

RECURSIVE MarshalEntries(_, _)
MarshalEntries(es, n) ==
    IF n = 0 THEN <<>>
    ELSE IF n = 1 THEN MarshalEntry(es[1])
    ELSE MarshalEntries(es, n - 1) \o <<",">> \o MarshalEntry(es[n])

\* Block.Serialize: json.Marshal(b), a struct with the one field Entries.
Serialize(b) ==
    <<"{", "Entries", ":", "[">> \o MarshalEntries(b.Entries, Len(b.Entries)) \o <<"]", "}">>

\* ------------------------------------------- DeserializeBlock, encoding/json
\* A parse result: whether it succeeded, the value, the position after it.
Parsed(val, pos) == [ok |-> TRUE, val |-> val, pos |-> pos]
Failed == [ok |-> FALSE, val |-> <<>>, pos |-> 0]

At(t, pos, tok) == pos <= Len(t) /\ t[pos] = tok
IsDigit(t, pos) == pos <= Len(t) /\ \E k \in 1..10 : Digits[k] = t[pos]
DigitValue(tok) == (CHOOSE k \in 1..10 : Digits[k] = tok) - 1

RECURSIVE ParseDigits(_, _, _)
\* The digits from pos on, appended to the value acc.
ParseDigits(t, pos, acc) ==
    IF IsDigit(t, pos) THEN ParseDigits(t, pos + 1, acc * 10 + DigitValue(t[pos]))
    ELSE Parsed(acc, pos)

NumberFrom(t, neg, start) ==
    IF ~IsDigit(t, start) THEN Failed
    ELSE LET r == ParseDigits(t, start, 0)
         IN [r EXCEPT !.val = IF neg THEN 0 - @ ELSE @]

\* A number: an optional sign and one digit or more.
ParseNumber(t, pos) ==
    IF At(t, pos, "-") THEN NumberFrom(t, TRUE, pos + 1) ELSE NumberFrom(t, FALSE, pos)

RECURSIVE ParseNumbersRest(_, _, _)
\* An array of numbers after the number r, with the numbers acc before it:
\* "," and another number, or "]".
ParseNumbersRest(t, r, acc) ==
    IF ~r.ok THEN Failed
    ELSE IF At(t, r.pos, "]") THEN Parsed(Append(acc, r.val), r.pos + 1)
    ELSE IF ~At(t, r.pos, ",") THEN Failed
    ELSE ParseNumbersRest(t, ParseNumber(t, r.pos + 1), Append(acc, r.val))

ParseVector(t, pos) ==
    IF ~At(t, pos, "[") THEN Failed
    ELSE IF At(t, pos + 1, "]") THEN Parsed(<<>>, pos + 2)
    ELSE ParseNumbersRest(t, ParseNumber(t, pos + 1), <<>>)

\* The end of an object whose last field's value is r.
CloseObject(t, r, val) ==
    IF r.ok /\ At(t, r.pos, "}") THEN Parsed(val, r.pos + 1) ELSE Failed

VariableOf(t, r) == CloseObject(t, r, r.val)

ParseVariable(t, pos) ==
    IF ~(At(t, pos, "{") /\ At(t, pos + 1, "Vector") /\ At(t, pos + 2, ":")) THEN Failed
    ELSE VariableOf(t, ParseVector(t, pos + 3))

RECURSIVE ParseVariablesRest(_, _, _)
ParseVariablesRest(t, r, acc) ==
    IF ~r.ok THEN Failed
    ELSE IF At(t, r.pos, "]") THEN Parsed(Append(acc, r.val), r.pos + 1)
    ELSE IF ~At(t, r.pos, ",") THEN Failed
    ELSE ParseVariablesRest(t, ParseVariable(t, r.pos + 1), Append(acc, r.val))

ParseVariables(t, pos) ==
    IF ~At(t, pos, "[") THEN Failed
    ELSE IF At(t, pos + 1, "]") THEN Parsed(<<>>, pos + 2)
    ELSE ParseVariablesRest(t, ParseVariable(t, pos + 1), <<>>)

EntryOf(t, o, ts) ==
    CloseObject(t, ts, [Output |-> o.val, Transitions |-> ts.val])

\* The field Transitions after the value o of the field Output.
EntryAfterOutput(t, o) ==
    IF ~(o.ok /\ At(t, o.pos, ",") /\ At(t, o.pos + 1, "Transitions")
              /\ At(t, o.pos + 2, ":")) THEN Failed
    ELSE EntryOf(t, o, ParseVariables(t, o.pos + 3))

ParseEntry(t, pos) ==
    IF ~(At(t, pos, "{") /\ At(t, pos + 1, "Output") /\ At(t, pos + 2, ":")) THEN Failed
    ELSE EntryAfterOutput(t, ParseVariable(t, pos + 3))

RECURSIVE ParseEntriesRest(_, _, _)
ParseEntriesRest(t, r, acc) ==
    IF ~r.ok THEN Failed
    ELSE IF At(t, r.pos, "]") THEN Parsed(Append(acc, r.val), r.pos + 1)
    ELSE IF ~At(t, r.pos, ",") THEN Failed
    ELSE ParseEntriesRest(t, ParseEntry(t, r.pos + 1), Append(acc, r.val))

ParseEntries(t, pos) ==
    IF ~At(t, pos, "[") THEN Failed
    ELSE IF At(t, pos + 1, "]") THEN Parsed(<<>>, pos + 2)
    ELSE ParseEntriesRest(t, ParseEntry(t, pos + 1), <<>>)

ZeroBlock == [nil |-> FALSE, Entries |-> <<>>]

\* The Block decoded from the entries es, when the document ends after them.
BlockOf(d, es) ==
    IF es.ok /\ At(d, es.pos, "}") /\ es.pos = Len(d)
    THEN [res |-> [nil |-> FALSE, Entries |-> es.val], err |-> FALSE]
    ELSE [res |-> ZeroBlock, err |-> TRUE]

\* json.Unmarshal(d, &res) on the documents Serialize writes and on
\* syntactically broken ones: res and whether an error came back.  On a
\* syntax error nothing is decoded and res stays the zero Block.
Unmarshal(d) ==
    IF ~(At(d, 1, "{") /\ At(d, 2, "Entries") /\ At(d, 3, ":"))
    THEN [res |-> ZeroBlock, err |-> TRUE]
    ELSE BlockOf(d, ParseEntries(d, 4))

\* Lines 33-36: nil and the error when json.Unmarshal failed, &res otherwise.
DeserializeResult(r) ==
    IF r.err THEN [res |-> NilBlock, err |-> TRUE] ELSE [res |-> r.res, err |-> FALSE]

\* DeserializeBlock.
DeserializeBlock(d) == DeserializeResult(Unmarshal(d))

\* ------------------------------------------------------------------ state
VARIABLES
    block,      \* the Block under construction and use, NilBlock before NewBlock
    status,     \* "ok", or "panic" once a call has panicked
    out,        \* the step result of the latest Batch call, NilOut before
    g,          \* the caller's autofunc.Gradient: variable -> visits added
    ser,        \* what the latest Serialize call returned
    des         \* what the latest DeserializeBlock call returned

vars == <<block, status, out, g, ser, des>>

\* ----------------------------------------------------------- caller inputs
Half == <<1, 2>>

\* Score vectors of the alphabet's length.
InputVectors(a) == [1..a -> Logits]

\* Incoming state vectors a caller may pass: the all-zero vector, two valid
\* log-distributions (uniform, and weighted towards the even states), and two
\* vectors that are neither (log(1/2) at index 0 only, log(1/2) everywhere
\* but at index 0).
SampleStates(n) ==
    {[i \in 1..n |-> One],
     LogSoftmax([i \in 1..n |-> 0]),
     LogSoftmax([i \in 1..n |-> IF i % 2 = 0 THEN 25 ELSE 0]),
     [i \in 1..n |-> IF i = 1 THEN Half ELSE One],
     [i \in 1..n |-> IF i = 1 THEN One ELSE Half]}

\* The state vectors the caller may pass for item i: a sample, or the next
\* state the previous step returned for that item.
StateChoices(i) ==
    SampleStates(StateSize(block)) \cup
    (IF ~out.nil /\ i <= Len(out.StateVecs) THEN {out.StateVecs[i]} ELSE {})

\* The keys of a gradient map made for the block: its parameters and the
\* caller's state variable.
GradientKeys(b) ==
    {Parameters(b)[i] : i \in 1..Len(Parameters(b))} \cup {<<"State", 1, 0>>}

NilSer == [nil |-> TRUE, bytes |-> <<>>, of |-> NilBlock]
NilDes == [nil |-> TRUE, res |-> NilBlock, err |-> FALSE, malformed |-> FALSE,
           of |-> NilBlock]

Init ==
    /\ block = NilBlock
    /\ status = "ok"
    /\ out = NilOut
    /\ g = [k \in {} |-> 0]
    /\ ser = NilSer
    /\ des = NilDes

\* ---------------------------------------------------------------- actions
\* NewBlock(alphabetSize, stateCount).
NewBlock ==
    /\ status = "ok"
    /\ block.nil
    /\ \E alphabetSize \in (0 - 1)..MaxAlphabet, stateCount \in (0 - 1)..MaxStates :
        IF NewBlockPanics(alphabetSize, stateCount)
        THEN /\ status' = "panic"
             /\ UNCHANGED block
        ELSE /\ block' = MakeBlock(alphabetSize, stateCount)
             /\ UNCHANGED status
    /\ UNCHANGED <<out, g, ser, des>>

\* The vector setting m gives parameter p: logits that differ from entry to
\* entry, from state to state and from symbol to symbol.
SettingVector(m, p, n) ==
    [j \in 1..n |-> IF (j + p[2] + p[3] + m) % 2 = 0 THEN 25
                    ELSE IF (p[2] + m) % 2 = 0 /\ p[1] = "Output" THEN 50 ELSE 0]

RECURSIVE WriteAll(_, _, _)
WriteAll(b, m, n) ==
    IF n = 0 THEN b
    ELSE LET p == Parameters(b)[n]
         IN WriteAll(WithVector(b, p, SettingVector(m, p, Len(Deref(b, p)))), m, n - 1)

\* Between sequences the optimizer writes every vector through the pointers
\* Parameters returned.
OptimizerStep ==
    /\ status = "ok"
    /\ ~block.nil
    /\ out.nil
    /\ \E m \in Settings : block' = WriteAll(block, m, Len(Parameters(block)))
    /\ UNCHANGED <<status, out, g, ser, des>>

\* The caller makes its gradient map, once: an entry, zero, for each of the
\* block's parameters and for its own state variable (autofunc.NewGradient).
NewGradient ==
    /\ status = "ok"
    /\ ~block.nil
    /\ DOMAIN g = {}
    /\ g' = [k \in GradientKeys(block) |-> 0]
    /\ UNCHANGED <<block, status, out, ser, des>>

\* Block.Batch on a batch of one item: a forward step of the sequence, which
\* come before the backward pass.
Batch ==
    /\ status = "ok"
    /\ ~block.nil
    /\ out.id < MaxSteps
    /\ out.propagated = 0
    /\ \E inputVec \in InputVectors(AlphabetSize(block)), state \in StateChoices(1) :
        IF ItemPanics(block, inputVec)
        THEN /\ status' = "panic"
             /\ UNCHANGED out
        ELSE LET r == BatchItem(block, inputVec, state)
             IN /\ out' = [nil |-> FALSE, id |-> out.id + 1,
                           Inputs |-> <<inputVec>>, States |-> <<state>>,
                           fromPrev |-> <<(~out.nil /\ state = out.StateVecs[1])>>,
                           input |-> <<r.input>>,
                           usedInitial |-> <<r.usedInitial>>,
                           state |-> <<r.state>>,
                           OutputVecs |-> <<r.output>>,
                           StateVecs |-> <<r.newStates>>,
                           propagated |-> 0]
                /\ UNCHANGED status
    /\ UNCHANGED <<block, g, ser, des>>

\* blockOutput.Gradient(u, g) on the latest step result.
Gradient ==
    /\ status = "ok"
    /\ ~out.nil
    /\ out.propagated < MaxGrads
    /\ \E u \in Upstreams :
        /\ g' = GradientInto(out, u, g)
        /\ out' = [out EXCEPT !.propagated = @ + 1]
    /\ UNCHANGED <<block, status, ser, des>>

Next == NewBlock \/ OptimizerStep \/ NewGradient \/ Batch \/ Gradient

Spec == Init /\ [][Next]_vars


\* ------------------------------------------------------------ persistence
\* Byte strings that are no JSON document, made from one Serialize wrote:
\* cut short, followed by a stray token, or with one token turned into "}"
\* (each leaves the brackets unbalanced).
Malformed(d) ==
    {SubSeq(d, 1, n) : n \in 0..(Len(d) - 1)} \cup
    {d \o <<"]">>} \cup
    {[d EXCEPT ![n] = "}"] : n \in {k \in 1..Len(d) : d[k] # "}"}}

\* What DeserializeBlock returned, whether its argument was a broken copy,
\* and the block the bytes were written from.
Returned(r, malformed, of) ==
    [nil |-> FALSE, res |-> r.res, err |-> r.err, malformed |-> malformed, of |-> of]

\* b.Serialize() on the block; the caller keeps the bytes.
SerializeBlock ==
    /\ status = "ok"
    /\ ~block.nil
    /\ ser' = [nil |-> FALSE, bytes |-> Serialize(block), of |-> block]
    /\ UNCHANGED <<block, status, out, g, des>>

\* DeserializeBlock(d) on the bytes kept, or on a broken copy of them.
Deserialize ==
    /\ status = "ok"
    /\ ~ser.nil
    /\ \E d \in {ser.bytes} \cup Malformed(ser.bytes) :
        des' = Returned(DeserializeBlock(d), d # ser.bytes, ser.of)
    /\ UNCHANGED <<block, status, out, g, ser>>

NextPersist == NewBlock \/ OptimizerStep \/ SerializeBlock \/ Deserialize

SpecPersist == Init /\ [][NextPersist]_vars


\* ------------------------------------------------------------------ claims
Last(o) == Len(o.StateVecs)
NumStates(o) == Len(o.StateVecs[1])
NumSymbols(o) == Len(o.OutputVecs[1])
Zero(v) == \A k \in 1..Len(v) : v[k] = One
GradientStep == ~out.nil /\ out'.propagated = out.propagated + 1
BatchStep == out'.id = out.id + 1

\* C1: when the incoming state of a step is a valid log-distribution (or the
\* all-zero vector that stands for the initial state), the output vector and
\* the next-state vector the step returns each exponentiate to sum 1; so a
\* state chained from the initial state stays a valid distribution.
C1_StepKeepsDistributions ==
    ~out.nil =>
        \A i \in 1..Last(out) :
            (IsDist(out.States[i]) \/ Zero(out.States[i])) =>
                /\ IsDist(out.OutputVecs[i])
                /\ IsDist(out.StateVecs[i])
                /\ Len(out.OutputVecs[i]) = AlphabetSize(block)
                /\ Len(out.StateVecs[i]) = StateSize(block)

\* A second step of a chain, on a block of two states or more whose
\* parameters the optimizer has written, fed the valid next state of the
\* first step.
C1_Witness ==
    /\ ~out.nil /\ out.id >= 2 /\ out.fromPrev[1]
    /\ IsDist(out.States[1]) /\ NumStates(out) >= 2
    /\ out.StateVecs[1] # LogSoftmax(Zeros(NumStates(out)))
    /\ \E s \in 1..StateSize(block) : block.Entries[s].Output # Zeros(AlphabetSize(block))

\* C2 (as stated): among equal maximal scores the step selects the lowest
\* index: no score before the selected one reaches it.
C2_TieSelectsLowest ==
    ~out.nil =>
        \A i \in 1..Last(out) :
            LET v == out.Inputs[i]
                c == out.input[i]
            IN /\ \A j \in 1..Len(v) : v[j] <= v[c]
               /\ \A j \in 1..(c - 1) : v[j] < v[c]

\* C2 (amended): the step selects a maximal score, and among equal maximal
\* scores the highest index: no score after the selected one reaches it.
C2_TieSelectsHighest ==
    ~out.nil =>
        \A i \in 1..Last(out) :
            LET v == out.Inputs[i]
                c == out.input[i]
            IN /\ c \in 1..Len(v)
               /\ \A j \in 1..Len(v) : v[j] <= v[c]
               /\ \A j \in (c + 1)..Len(v) : v[j] < v[c]

\* A step whose score vector has its maximum at two indices, the later of
\* which was selected.
C2_Witness ==
    /\ ~out.nil
    /\ \E j \in 1..Len(out.Inputs[1]) :
        /\ j < out.input[1]
        /\ out.Inputs[1][j] = out.Inputs[1][out.input[1]]
        /\ out.Inputs[1][j] = 25

C5_InitialStateReachesMap ==
    (~out.nil /\ out.usedInitial[1] /\ out.propagated >= 1 /\ DOMAIN g # {}) =>
        \E k \in DOMAIN g : k = StateLeaf(out, 1) /\ g[k] > 0

\* C6: Gradient leaves the entries of the transition tensors of every symbol
\* but the selected one as they are; the next state a step returns is the one
\* it returns with those tensors zeroed; neither Batch nor Gradient changes a
\* parameter.
C6_OnlySelectedRow ==
    [][/\ GradientStep =>
            \A k \in DOMAIN g :
                (k[1] = "Transitions" /\ k[3] # out.input[1]) => g'[k] = g[k]
       /\ (BatchStep \/ GradientStep) => block' = block
       /\ BatchStep =>
            LET c == out'.input[1]
                others == [block EXCEPT !.Entries =
                    [s \in 1..StateSize(block) |->
                        [block.Entries[s] EXCEPT !.Transitions =
                            [x \in 1..AlphabetSize(block) |->
                                IF x = c THEN block.Entries[s].Transitions[x]
                                ELSE Zeros(StateSize(block))]]]]
            IN BatchItem(others, out'.Inputs[1], out'.States[1]).newStates = out'.StateVecs[1]
      ]_vars

\* Gradient has run with an upstream state gradient on a step of a block of
\* two symbols: the selected symbol's tensors have additions, the other's none.
C6_Witness ==
    /\ ~out.nil /\ out.propagated >= 1 /\ NumSymbols(out) >= 2
    /\ \E k \in DOMAIN g : k[1] = "Transitions" /\ k[3] = out.input[1] /\ g[k] > 0
    /\ \E k \in DOMAIN g : k[1] = "Transitions" /\ k[3] # out.input[1] /\ g[k] = 0
    /\ \E s \in 1..StateSize(block) : block.Entries[s].Output # Zeros(AlphabetSize(block))

\* C7: no Block exists with zero states or a zero-length alphabet: NewBlock
\* returns none for such arguments.
C7_NoDegenerateBlock ==
    ~block.nil => (StateSize(block) >= 1 /\ AlphabetSize(block) >= 1)

RefSoftmax(x, k) ==
    LET w == [j \in 1..Len(x) |-> 2 ^ (x[j] \div 25)]
    IN Rat(w[k], SumVec([j \in 1..Len(x) |-> <<w[j], 1>>], Len(x))[1])

RECURSIVE RefMixture(_, _, _, _)
\* The sum over the states s..Len(p) of p[s] * softmax(logits[s])[k].
RefMixture(p, logits, k, s) ==
    IF s > Len(p) THEN <<0, 1>>
    ELSE RAdd(RMul(p[s], RefSoftmax(logits[s], k)), RefMixture(p, logits, k, s + 1))

\* C9: in probability space the next state of a step is the mixture of the
\* states' transition distributions for the selected symbol, weighted by the
\* state used, and the output is the mixture of the states' output
\* distributions.
C9_ForwardMixture ==
    ~out.nil =>
        LET p == out.state[1]
            c == out.input[1]
            n == StateSize(block)
        IN /\ \A k \in 1..n :
                out.StateVecs[1][k] =
                    RefMixture(p, [s \in 1..n |-> block.Entries[s].Transitions[c]], k, 1)
           /\ \A a \in 1..AlphabetSize(block) :
                out.OutputVecs[1][a] =
                    RefMixture(p, [s \in 1..n |-> block.Entries[s].Output], a, 1)

\* A step on a block of two states and two symbols with written parameters,
\* whose next state differs from its output.
C9_Witness ==
    /\ ~out.nil /\ NumStates(out) >= 2 /\ NumSymbols(out) >= 2
    /\ out.StateVecs[1] # out.OutputVecs[1]
    /\ \E s \in 1..StateSize(block) : block.Entries[s].Output # Zeros(AlphabetSize(block))

\* log-softmax of (InitialLogit, 0, ..., 0), entry by entry.
RefInitial(n) ==
    LET big == Exp(InitialLogit)[1]
    IN [i \in 1..n |-> IF i = 1 THEN Rat(big, big + n - 1) ELSE Rat(1, big + n - 1)]

\* C10: a step replaces the incoming state by the initial distribution
\* exactly when every entry of it is 0, and uses it as given otherwise; with
\* two states or more a valid log-distribution, such as the next state of a
\* previous step, is not replaced.
C10_InitialOnlyForZero ==
    ~out.nil =>
        \A i \in 1..Last(out) :
            /\ out.usedInitial[i] <=> Zero(out.States[i])
            /\ out.state[i] = IF Zero(out.States[i]) THEN RefInitial(NumStates(out))
                              ELSE out.States[i]
            /\ (NumStates(out) >= 2 /\ IsDist(out.States[i])) => ~out.usedInitial[i]

\* A second step of a chain on two states or more that went on with the
\* next state of the first step, a valid log-distribution, as given.
C10_Witness ==
    /\ ~out.nil /\ out.id >= 2 /\ out.fromPrev[1] /\ NumStates(out) >= 2
    /\ IsDist(out.States[1]) /\ ~out.usedInitial[1]
    /\ out.state[1] = out.States[1]

=============================================================================
